---------------------------- MODULE Spec2Model ----------------------------
(***************************************************************************)
(* raindrop_convert.py: a table of bookmark rows (title, url, folder,      *)
(* created) is sorted by folder, folded into a tree of BookmarkFolder      *)
(* objects and rendered as a Netscape bookmark file.                       *)
(*                                                                         *)
(* A Python str is a sequence of one-character strings (<<"X", "/", "B">>  *)
(* is "X/B"), so that strip, split, lower, html.escape and the ordering of *)
(* strings are computed and not assumed.  A missing cell of the DataFrame  *)
(* (NaN) is the value NaN below.  pandas.read_csv turns an empty field     *)
(* into NaN, so the empty string is never a cell of the table.             *)
(***************************************************************************)
EXTENDS Integers, Sequences, FiniteSets, Bags, TLC

VARIABLES
    df,            \* the DataFrame read by pd.read_csv: a sequence of rows
    bookmarks_df,  \* create_folder_structure's local: df, then df sorted
    now,           \* what int(datetime.now().timestamp()) returns in this run
    pc,            \* position in convert_raindrop_to_browser_bookmarks
    i,             \* number of rows iterrows() has yielded so far
    heap,          \* the BookmarkFolder objects, in allocation order
    content,       \* generate_folder_html(root_folder), once rendered
    bookmarks_html, \* the document: header, content and footer
    output_file,   \* the lines written to output_file
    total_folders  \* the number of folders reported, or None

vars ==
    <<df, bookmarks_df, now, pc, i, heap, content, bookmarks_html, output_file,
      total_folders>>

-----------------------------------------------------------------------------
(* Bounds of the model.                                                    *)

MaxRows == 3
MaxEntryRows == 2

-----------------------------------------------------------------------------
(* Strings.                                                                *)

NaN == <<"NaN">>

notna(x) == x # NaN

\* bool(x) for a cell: NaN is a non-zero float, a str is true when non-empty
Truthy(x) == x # <<>>

\* ord(c) for the characters that are compared
Ord(c) ==
    CASE c = " " -> 32
      [] c = "/" -> 47
      [] c = "B" -> 66
      [] c = "X" -> 88
      [] c = "a" -> 97
      [] c = "b" -> 98
      [] c = "o" -> 111
      [] c = "r" -> 114
      [] c = "t" -> 116
      [] c = "x" -> 120

\* str < str: code point by code point, a proper prefix is smaller
RECURSIVE StrLess(_, _)
StrLess(a, b) ==
    IF b = <<>> THEN FALSE
    ELSE IF a = <<>> THEN TRUE
    ELSE IF Head(a) = Head(b) THEN StrLess(Tail(a), Tail(b))
    ELSE Ord(Head(a)) < Ord(Head(b))

LowerChar(c) ==
    CASE c = "B" -> "b"
      [] c = "X" -> "x"
      [] OTHER -> c

\* str.lower()
lower(s) == [k \in 1..Len(s) |-> LowerChar(s[k])]

IsSpace(c) == c = " "

RECURSIVE lstrip(_)
lstrip(s) == IF s # <<>> /\ IsSpace(Head(s)) THEN lstrip(Tail(s)) ELSE s

RECURSIVE rstrip(_)
rstrip(s) ==
    IF s # <<>> /\ IsSpace(s[Len(s)]) THEN rstrip(SubSeq(s, 1, Len(s) - 1)) ELSE s

\* str.strip()
strip(s) == rstrip(lstrip(s))

\* str.split(sep): always at least one piece
RECURSIVE split(_, _)
split(s, sep) ==
    IF \E k \in 1..Len(s) : s[k] = sep
    THEN LET at == CHOOSE k \in 1..Len(s) : s[k] = sep /\ \A j \in 1..(k - 1) : s[j] # sep
         IN  <<SubSeq(s, 1, at - 1)>> \o split(SubSeq(s, at + 1, Len(s)), sep)
    ELSE <<s>>

EscapeChar(c) ==
    CASE c = "&" -> <<"&", "a", "m", "p", ";">>
      [] c = "<" -> <<"&", "l", "t", ";">>
      [] c = ">" -> <<"&", "g", "t", ";">>
      [] c = "\"" -> <<"&", "q", "u", "o", "t", ";">>
      [] c = "'" -> <<"&", "#", "x", "2", "7", ";">>
      [] OTHER -> <<c>>

\* an escape that leaves the text as it is
EscapeNothing(s) == s

\* html.escape(s), quote=True
RECURSIVE html_escape(_)
html_escape(s) ==
    IF s = <<>> THEN <<>> ELSE EscapeChar(Head(s)) \o html_escape(Tail(s))

\* "    " * level
RECURSIVE Indent(_)
Indent(level) ==
    IF level <= 0 THEN <<>> ELSE <<" ", " ", " ", " ">> \o Indent(level - 1)

-----------------------------------------------------------------------------
(* create_bookmark_html.                                                   *)

ISO_2024 ==
    <<"2", "0", "2", "4", "-", "0", "1", "-", "0", "1", "T",
      "0", "0", ":", "0", "0", ":", "0", "0", "Z">>

\* created=row['created'] if pd.notna(row['created']) else None
None == <<"None">>

\* datetime.fromisoformat(created.replace('Z', '+00:00')) does not raise;
\* of the strings of the model one is a timestamp and one is not
ParsesAsIso(created) == created = ISO_2024

\* int(datetime.fromisoformat(...).timestamp()) of a string that parses
IsoTimestamp(created) == IF created = ISO_2024 THEN 1704067200 ELSE 0

\* add_date: the parsed time, or the clock when created is None, empty or
\* does not parse
AddDate(created, clock) ==
    IF created # None /\ Truthy(created)
    THEN IF ParsesAsIso(created) THEN IsoTimestamp(created) ELSE clock
    ELSE clock

\* the f-string <DT><A HREF="{href}" ADD_DATE="{add_date}">{text}</A>,
\* kept as its three interpolated fields
create_bookmark_html(title, url, created, clock) ==
    [href |-> html_escape(url),
     add_date |-> AddDate(created, clock),
     text |-> html_escape(title)]

-----------------------------------------------------------------------------
(* BookmarkFolder and add_to_folder_structure.  A dict is the sequence of  *)
(* its items in insertion order.                                           *)

ROOT_NAME == <<"r", "o", "o", "t">>

\* BookmarkFolder(name)
BookmarkFolder(name) == [name |-> name, subfolders |-> <<>>, bookmarks |-> <<>>]

Root == 1

\* dict keys compared without regard to case
KeyEqIgnoreCase(a, b) == lower(a) = lower(b)

\* equality of dict keys
KeyEq(a, b) == a = b

\* a membership test that never finds the key
DictHasNever(d, key) == FALSE

\* key in d
DictHas(d, key) == \E k \in 1..Len(d) : KeyEq(d[k].key, key)

\* d[key]
DictGet(d, key) == d[CHOOSE k \in 1..Len(d) : KeyEq(d[k].key, key)].ref

\* d[key] = ref
DictSet(d, key, ref) ==
    IF DictHas(d, key)
    THEN [k \in 1..Len(d) |-> IF KeyEq(d[k].key, key) THEN [d[k] EXCEPT !.ref = ref] ELSE d[k]]
    ELSE Append(d, [key |-> key, ref |-> ref])

\* folders = [f.strip() for f in folder_path.split('/')]
Folders(folder_path) ==
    LET parts == split(folder_path, "/")
    IN  [k \in 1..Len(parts) |-> strip(parts[k])]

\* the for loop of add_to_folder_structure: the heap and the folder reached
RECURSIVE Navigate(_, _, _)
Navigate(h, current, folders) ==
    IF folders = <<>> THEN [heap |-> h, current |-> current]
    ELSE LET folder_name == Head(folders)
             fresh == Len(h) + 1
             h1 == IF ~DictHas(h[current].subfolders, folder_name)
                   THEN Append([h EXCEPT ![current].subfolders =
                                    DictSet(@, folder_name, fresh)],
                               BookmarkFolder(folder_name))
                   ELSE h
         IN  Navigate(h1, DictGet(h1[current].subfolders, folder_name), Tail(folders))

\* the path the loop walks: none when folder_path is empty or NaN
WalkedFolders(folder_path) ==
    IF Truthy(folder_path) /\ notna(folder_path) THEN Folders(folder_path) ELSE <<>>

add_to_folder_structure(h, folder_path, bookmark_html) ==
    LET nav == Navigate(h, Root, WalkedFolders(folder_path))
    IN  [nav.heap EXCEPT ![nav.current].bookmarks = Append(@, bookmark_html)]

-----------------------------------------------------------------------------
(* generate_folder_html.  A line of the output is a record: its indent    *)
(* (the string of spaces before it), its tag and what the tag carries.     *)
(* The field folder is the BookmarkFolder whose call emitted the line; it  *)
(* is history, not text.                                                   *)

\* a sort key that keeps the case of the name
SortKeyCased(folder) == folder.name

\* key=lambda x: x.name.lower()
SortKey(folder) == lower(folder.name)

\* one step of sorted(): x goes after every item whose key is not greater
\* (sorted() is stable)
RECURSIVE InsertSorted(_, _, _)
InsertSorted(h, x, s) ==
    IF s = <<>> THEN <<x>>
    ELSE IF StrLess(SortKey(h[x]), SortKey(h[Head(s)])) THEN <<x>> \o s
    ELSE <<Head(s)>> \o InsertSorted(h, x, Tail(s))

\* sorted(folder.subfolders.values(), key=lambda x: x.name.lower())
RECURSIVE SortedSubfolders(_, _)
SortedSubfolders(h, d) ==
    IF d = <<>> THEN <<>>
    ELSE InsertSorted(h, d[Len(d)].ref, SortedSubfolders(h, SubSeq(d, 1, Len(d) - 1)))

\* folder.name != "root"
HasHeader(folder) == folder.name # ROOT_NAME

\* a closing line indented like the folder's contents
CloseIndentDeep(level) == Indent(level)

\* the indent of the closing line: "    " * (level-1), level already raised
CloseIndent(level) == Indent(level - 1)

RECURSIVE generate_folder_html(_, _, _)
RECURSIVE RenderAll(_, _, _)

\* content.extend(generate_folder_html(subfolder, level)) for each subfolder
RenderAll(h, subs, level) ==
    IF subs = <<>> THEN <<>>
    ELSE generate_folder_html(h, Head(subs), level) \o RenderAll(h, Tail(subs), level)

generate_folder_html(h, n, level) ==
    LET folder == h[n]
        lvl == IF HasHeader(folder) THEN level + 1 ELSE level
        header == IF HasHeader(folder)
                  THEN <<[tag |-> "H3", indent |-> Indent(level),
                          name |-> html_escape(folder.name), folder |-> n],
                         [tag |-> "DL", indent |-> Indent(level), folder |-> n]>>
                  ELSE <<>>
        marks == [k \in 1..Len(folder.bookmarks) |->
                     [tag |-> "A", indent |-> Indent(lvl),
                      bookmark |-> folder.bookmarks[k], folder |-> n]]
        subs == RenderAll(h, SortedSubfolders(h, folder.subfolders), lvl)
        close == IF HasHeader(folder)
                 THEN <<[tag |-> "/DL", indent |-> CloseIndent(lvl), folder |-> n]>>
                 ELSE <<>>
    IN  header \o marks \o subs \o close

\* the text of output lines: the lines without their history
Text(lines) ==
    [k \in 1..Len(lines) |->
        [f \in (DOMAIN lines[k]) \ {"folder"} |-> lines[k][f]]]

\* header of generate_bookmarks_html, line by line; the last opens the
\* top-level list
HEADER ==
    <<[tag |-> "TEXT", text |-> "<!DOCTYPE NETSCAPE-Bookmark-file-1>"],
      [tag |-> "TEXT", text |-> "<!-- This is an automatically generated file."],
      [tag |-> "TEXT", text |-> "     It will be read and overwritten."],
      [tag |-> "TEXT", text |-> "     DO NOT EDIT! -->"],
      [tag |-> "TEXT",
       text |-> "<META HTTP-EQUIV=\"Content-Type\" CONTENT=\"text/html; charset=UTF-8\">"],
      [tag |-> "TEXT", text |-> "<TITLE>Bookmarks</TITLE>"],
      [tag |-> "TEXT", text |-> "<H1>Bookmarks</H1>"],
      [tag |-> "DL", indent |-> <<>>]>>

FOOTER == <<[tag |-> "/DL", indent |-> <<>>]>>

\* [header] + content + [footer], the lines '\n'.join joins
generate_bookmarks_html(lines) == HEADER \o Text(lines) \o FOOTER

RECURSIVE count_folders(_, _)
RECURSIVE SumCounts(_, _)

\* sum(count_folders(subfolder) for subfolder in folder.subfolders.values())
SumCounts(h, d) ==
    IF d = <<>> THEN 0 ELSE count_folders(h, Head(d).ref) + SumCounts(h, Tail(d))

count_folders(h, n) == Len(h[n].subfolders) + SumCounts(h, h[n].subfolders)

-----------------------------------------------------------------------------
(* The rows of the table.                                                  *)

Row(title, url, folder, created) ==
    [title |-> title, url |-> url, folder |-> folder, created |-> created]

\* folder cells: missing, blank, a name, the name with a space before it,
\* the name in lower case, the name "root", and three nested paths, one of
\* them to a folder named "root"
FolderCells ==
    {NaN, <<" ">>, <<"X">>, <<" ", "X">>, <<"x">>, ROOT_NAME,
     <<"X", "/", "B">>, <<"X", "/", "a">>, <<"X", "/">> \o ROOT_NAME}

\* rows that differ in folder and in title
FolderRows ==
    {Row(t, <<"u", "&">>, f, NaN) : t \in {NaN, <<"<">>}, f \in FolderCells}

\* rows that differ in title, url and created
EntryRows ==
    {Row(t, u, f, c) :
        t \in {NaN, <<" ">>, <<"<", "&", ">">>},
        u \in {<<"u">>, <<"\"", "&", "'">>},
        f \in {NaN, <<"X">>, ROOT_NAME},
        c \in {NaN, ISO_2024, <<"x">>}}

Tables(rows, n) == UNION {[1..k -> rows] : k \in 0..n}

-----------------------------------------------------------------------------
(* create_folder_structure and the conversion.                             *)

Orders(n) ==
    {p \in [1..n -> 1..n] : \A a, b \in 1..n : a # b => p[a] # p[b]}

\* numpy's quicksort, the default kind of sort_values, sorts a range of at
\* most this many items by insertion, which keeps equal items in order
SMALL_QUICKSORT == 16

\* p is an order sort_values('folder', na_position='last') may return: the
\* rows with a folder ascending by folder, then the rows without one in
\* their order in the table.  kind='quicksort' is not stable: in a table
\* longer than SMALL_QUICKSORT rows with equal folders come in any order.
IsSortOrder(t, p) ==
    \A a, b \in 1..Len(t) :
        a < b =>
            /\ notna(t[p[a]].folder) \/ ~notna(t[p[b]].folder)
            /\ notna(t[p[a]].folder) /\ notna(t[p[b]].folder)
                   => ~StrLess(t[p[b]].folder, t[p[a]].folder)
            /\ ~notna(t[p[a]].folder) /\ ~notna(t[p[b]].folder) => p[a] < p[b]
            /\ (t[p[a]].folder = t[p[b]].folder /\ Len(t) <= SMALL_QUICKSORT)
                   => p[a] < p[b]

\* title=row['title'] if pd.notna(row['title']) else row['url']
TitleOf(row) == IF notna(row.title) THEN row.title ELSE row.url

\* created=row['created'] if pd.notna(row['created']) else None
CreatedOf(row) == IF notna(row.created) THEN row.created ELSE None

\* the body of the for loop of create_folder_structure
AddRow(h, row, clock) ==
    add_to_folder_structure(
        h, row.folder,
        create_bookmark_html(TitleOf(row), row.url, CreatedOf(row), clock))

TypeOK ==
    /\ pc \in {"sort", "iterrows", "render", "write", "done"}
    /\ i \in 0..Len(bookmarks_df)
    /\ Len(heap) >= 1

InitWith(tables, clocks) ==
    /\ df \in tables
    /\ bookmarks_df = df
    /\ now \in clocks
    /\ pc = "sort"
    /\ i = 0
    /\ heap = <<BookmarkFolder(ROOT_NAME)>>
    /\ content = <<>>
    /\ bookmarks_html = <<>>
    /\ output_file = <<>>
    /\ total_folders = None

Init == InitWith(Tables(FolderRows, MaxRows), {1730000000})

InitEntries == InitWith(Tables(EntryRows, MaxEntryRows), {1730000000})

\* bookmarks_df = bookmarks_df.sort_values('folder', na_position='last')
SortValues ==
    /\ pc = "sort"
    /\ \E p \in Orders(Len(df)) :
          /\ IsSortOrder(df, p)
          /\ bookmarks_df' = [k \in 1..Len(df) |-> df[p[k]]]
    /\ pc' = "iterrows"
    /\ UNCHANGED <<df, now, i, heap, content, bookmarks_html, output_file, total_folders>>

\* one turn of for _, row in bookmarks_df.iterrows()
IterRow ==
    /\ pc = "iterrows"
    /\ i < Len(bookmarks_df)
    /\ heap' = AddRow(heap, bookmarks_df[i + 1], now)
    /\ i' = i + 1
    /\ UNCHANGED <<df, bookmarks_df, now, pc, content, bookmarks_html, output_file,
                   total_folders>>

\* the loop ends: return root
ReturnRoot ==
    /\ pc = "iterrows"
    /\ i = Len(bookmarks_df)
    /\ pc' = "render"
    /\ UNCHANGED <<df, bookmarks_df, now, i, heap, content, bookmarks_html, output_file,
                   total_folders>>

\* bookmarks_html = generate_bookmarks_html(root_folder)
GenerateBookmarksHtml ==
    /\ pc = "render"
    /\ content' = generate_folder_html(heap, Root, 0)
    /\ bookmarks_html' = generate_bookmarks_html(content')
    /\ pc' = "write"
    /\ UNCHANGED <<df, bookmarks_df, now, i, heap, output_file, total_folders>>

\* f.write(bookmarks_html); total_folders = count_folders(root_folder)
WriteAndCount ==
    /\ pc = "write"
    /\ output_file' = bookmarks_html
    /\ total_folders' = count_folders(heap, Root)
    /\ pc' = "done"
    /\ UNCHANGED <<df, bookmarks_df, now, i, heap, content, bookmarks_html>>

Next == SortValues \/ IterRow \/ ReturnRoot \/ GenerateBookmarksHtml \/ WriteAndCount

Spec == Init /\ [][Next]_vars

SpecEntries == InitEntries /\ [][Next]_vars

-----------------------------------------------------------------------------
(* What the properties below speak of.                                     *)

Range(s) == {s[k] : k \in 1..Len(s)}

BagOfSeq(s) == [x \in Range(s) |-> Cardinality({k \in 1..Len(s) : s[k] = x})]

\* the pairs <<path, folder>>: the folder is reached from start by looking
\* up the names of path, one after the other
RECURSIVE PathsFrom(_, _, _, _)
PathsFrom(h, n, path, fuel) ==
    {<<path, n>>} \cup
    (IF fuel = 0 THEN {}
     ELSE UNION {PathsFrom(h, h[n].subfolders[k].ref,
                           Append(path, h[n].subfolders[k].key), fuel - 1) :
                    k \in 1..Len(h[n].subfolders)})

NodePaths == PathsFrom(heap, Root, <<>>, Len(heap))

\* the folders of the subtree of n
Subtree(n) == {pp[2] : pp \in PathsFrom(heap, n, <<>>, Len(heap))}

NonRoot == 2..Len(heap)

\* the entry line of a row
LineOf(row) == create_bookmark_html(TitleOf(row), row.url, CreatedOf(row), now)

LinesOf(t) == [k \in 1..Len(t) |-> LineOf(t[k])]

\* the rows iterrows() has yielded
Processed == SubSeq(bookmarks_df, 1, i)

Built == pc \in {"render", "write", "done"}

\* the positions of the output lines a set of folders emitted
PositionsOf(folders) == {k \in 1..Len(content) : content[k].folder \in folders}

\* the entry lines of folder n in the output, in output order
RenderedEntries(n) ==
    LET own == SelectSeq(content, LAMBDA l : l.tag = "A" /\ l.folder = n)
    IN  [k \in 1..Len(own) |-> own[k].bookmark]

\* C1: every non-root folder is reached from the root by exactly one
\* sequence of child names, no two folders have the same sequence, and the
\* rows whose folder paths give the same sequence of trimmed segments have
\* their entries in the one folder of that sequence.
C1_OneNodePerPath ==
    /\ \A n \in NonRoot : Cardinality({pp \in NodePaths : pp[2] = n}) = 1
    /\ \A pp, qq \in NodePaths : pp[1] = qq[1] => pp[2] = qq[2]
    /\ \A k \in 1..Len(Processed) :
          notna(Processed[k].folder) =>
              LET segs == Folders(Processed[k].folder)
                  same == SelectSeq(Processed,
                              LAMBDA r : notna(r.folder) /\ Folders(r.folder) = segs)
              IN  \E n \in NonRoot :
                      /\ <<segs, n>> \in NodePaths
                      /\ BagOfSeq(heap[n].bookmarks) = BagOfSeq(LinesOf(same))

\* two rows written " X" and "X" have been put into one folder, beside a
\* nested folder
C1_Witness ==
    /\ Built
    /\ \E a, b \in 1..Len(df) :
          /\ df[a].folder = <<" ", "X">>
          /\ df[b].folder = <<"X">>
          /\ df[a].title # df[b].title
    /\ \E n \in NonRoot : Len(heap[n].bookmarks) = 2 /\ Len(heap[n].subfolders) = 1

\* C2 as stated: every non-root folder, whatever its name, has exactly one
\* header line with its escaped name, followed at once by a list-open line
\* and later by one list-close line.
C2_EveryFolderHasHeader ==
    pc = "done" =>
        \A n \in NonRoot :
            /\ Cardinality({k \in 1..Len(content) :
                               content[k].tag = "H3" /\ content[k].folder = n}) = 1
            /\ \A k \in 1..Len(content) :
                  content[k].tag = "H3" /\ content[k].folder = n =>
                      /\ content[k].name = html_escape(heap[n].name)
                      /\ k < Len(content)
                      /\ content[k + 1].tag = "DL" /\ content[k + 1].folder = n
                      /\ \E j \in (k + 2)..Len(content) :
                            content[j].tag = "/DL" /\ content[j].folder = n

\* the rows of the table, in the table's order, that add_to_folder_structure
\* puts into the folder of path
RowsInto(t, path) == SelectSeq(t, LAMBDA r : WalkedFolders(r.folder) = path)

\* C3 as stated: the entries stored in, and rendered for, each folder are in
\* the order of their rows in the input.
C3_InputOrderKept ==
    /\ Built =>
          \A pp \in NodePaths : heap[pp[2]].bookmarks = LinesOf(RowsInto(df, pp[1]))
    /\ pc = "done" =>
          \A pp \in NodePaths : RenderedEntries(pp[2]) = LinesOf(RowsInto(df, pp[1]))

\* a folder cell of nothing but whitespace
IsBlank(cell) == notna(cell) /\ strip(cell) = <<>>

\* C4 as stated: a row whose folder is only whitespace is handled like a row
\* without a folder: its entry is in the root's list, and no folder is made.
C4_BlankFolderIsRoot ==
    Built =>
        /\ BagOfSeq(heap[Root].bookmarks) =
              BagOfSeq(LinesOf(SelectSeq(df,
                  LAMBDA r : ~notna(r.folder) \/ IsBlank(r.folder))))
        /\ (\A k \in 1..Len(df) : ~notna(df[k].folder) \/ IsBlank(df[k].folder))
              => Len(heap) = 1

HasFolder(t, cell) == \E k \in 1..Len(t) : t[k].folder = cell

\* C5 as stated: rows with the folders "X" and "x" end in one folder, and
\* the root has a single child for them.
C5_CaseFolded ==
    (Built /\ HasFolder(df, <<"X">>) /\ HasFolder(df, <<"x">>)) =>
        /\ Cardinality({pp \in NodePaths : pp[1] \in {<<<<"X">>>>, <<<<"x">>>>}}) = 1
        /\ \E n \in NonRoot :
              BagOfSeq(heap[n].bookmarks) =
                  BagOfSeq(LinesOf(SelectSeq(df,
                      LAMBDA r : notna(r.folder)
                                 /\ lower(Folders(r.folder)[1]) = <<"x">>
                                 /\ Len(Folders(r.folder)) = 1)))

\* C5, amended: rows with the folders "X" and "x" end in two folders, both
\* children of the root, each holding the entries of the rows whose path
\* gives its name exactly.
C5_CaseSensitive ==
    (Built /\ HasFolder(df, <<"X">>) /\ HasFolder(df, <<"x">>)) =>
        \E n, m \in NonRoot :
            /\ n # m
            /\ <<<<<<"X">>>>, n>> \in NodePaths
            /\ <<<<<<"x">>>>, m>> \in NodePaths
            /\ BagOfSeq(heap[n].bookmarks) =
                  BagOfSeq(LinesOf(SelectSeq(df,
                      LAMBDA r : notna(r.folder) /\ Folders(r.folder) = <<<<"X">>>>)))
            /\ BagOfSeq(heap[m].bookmarks) =
                  BagOfSeq(LinesOf(SelectSeq(df,
                      LAMBDA r : notna(r.folder) /\ Folders(r.folder) = <<<<"x">>>>)))

\* the table has a row in "X" and a row in "x", and the tree is built
C5_Witness ==
    /\ pc = "done"
    /\ HasFolder(df, <<"X">>)
    /\ HasFolder(df, <<"x">>)
    /\ Len(heap[Root].subfolders) = 2

\* the five replacements of markup escaping
Entities ==
    {[char |-> "&", text |-> <<"&", "a", "m", "p", ";">>],
     [char |-> "<", text |-> <<"&", "l", "t", ";">>],
     [char |-> ">", text |-> <<"&", "g", "t", ";">>],
     [char |-> "\"", text |-> <<"&", "q", "u", "o", "t", ";">>],
     [char |-> "'", text |-> <<"&", "#", "x", "2", "7", ";">>]}

StartsWith(s, prefix) ==
    Len(s) >= Len(prefix) /\ SubSeq(s, 1, Len(prefix)) = prefix

\* s holds no reserved character but the "&" that begins a replacement
RECURSIVE IsEscaped(_)
IsEscaped(s) ==
    IF s = <<>> THEN TRUE
    ELSE IF Head(s) \in {"<", ">", "\"", "'"} THEN FALSE
    ELSE IF Head(s) = "&"
         THEN \E e \in Entities :
                 /\ StartsWith(s, e.text)
                 /\ IsEscaped(SubSeq(s, Len(e.text) + 1, Len(s)))
    ELSE IsEscaped(Tail(s))

\* the text an escaped string stands for
RECURSIVE Unescape(_)
Unescape(s) ==
    IF s = <<>> THEN <<>>
    ELSE IF \E e \in Entities : StartsWith(s, e.text)
         THEN LET e == CHOOSE e \in Entities : StartsWith(s, e.text)
              IN  <<e.char>> \o Unescape(SubSeq(s, Len(e.text) + 1, Len(s)))
    ELSE <<Head(s)>> \o Unescape(Tail(s))

\* the entry lines of the output
EntryLines == SelectSeq(content, LAMBDA l : l.tag = "A")

\* C6: the document holds exactly one entry line per row of the table: as
\* many entry lines as rows, each url and title escaped, and the urls and
\* titles the lines stand for are, with their multiplicities, those of the
\* rows (the title of a row without one being its url).
C6_EveryRowOnce ==
    pc = "done" =>
        /\ Len(EntryLines) = Len(df)
        /\ \A k \in 1..Len(EntryLines) :
              /\ IsEscaped(EntryLines[k].bookmark.href)
              /\ IsEscaped(EntryLines[k].bookmark.text)
        /\ BagOfSeq([k \in 1..Len(EntryLines) |->
                        <<Unescape(EntryLines[k].bookmark.href),
                          Unescape(EntryLines[k].bookmark.text)>>])
           = BagOfSeq([k \in 1..Len(df) |-> <<df[k].url, TitleOf(df[k])>>])

\* two rows, in a folder named "root" and in another folder, with a url and
\* a title that need escaping, have been rendered
C6_Witness ==
    /\ pc = "done"
    /\ Len(df) = 2
    /\ \E a, b \in 1..2 :
          /\ df[a].folder = ROOT_NAME /\ df[b].folder = <<"X">>
          /\ df[a].url = <<"\"", "&", "'">> /\ df[a].title = NaN
          /\ df[b].title = <<"<", "&", ">">>

\* the tree the rows of the table give when they are added in the table's
\* order
RECURSIVE BuildInOrder(_, _)
BuildInOrder(t, k) ==
    IF k = 0 THEN <<BookmarkFolder(ROOT_NAME)>>
    ELSE AddRow(BuildInOrder(t, k - 1), t[k], now)

\* C7 as stated: the document is the same whether the rows are processed
\* sorted by folder or in the table's order.
C7_SortChangesNothing ==
    pc = "done" =>
        output_file =
            generate_bookmarks_html(
                generate_folder_html(BuildInOrder(df, Len(df)), Root, 0))

Children(n) == {heap[n].subfolders[k].ref : k \in 1..Len(heap[n].subfolders)}

\* C8: of two child folders of one folder, the one whose lower-cased name is
\* smaller is rendered, with all its subtree, before the other; and the
\* entries of a folder are rendered before anything of its child folders.
C8_SiblingsAscending ==
    pc = "done" =>
        \A n \in 1..Len(heap) :
            /\ \A c, d \in Children(n) :
                  StrLess(lower(heap[c].name), lower(heap[d].name)) =>
                      \A a \in PositionsOf(Subtree(c)), b \in PositionsOf(Subtree(d)) :
                          a < b
            /\ \A a \in {k \in PositionsOf({n}) : content[k].tag = "A"},
                  b \in PositionsOf(UNION {Subtree(c) : c \in Children(n)}) :
                  a < b

\* a folder with an entry and two child folders, each with an entry, the
\* child made first having the greater lower-cased name
C8_Witness ==
    /\ pc = "done"
    /\ \E n \in NonRoot :
          /\ heap[n].bookmarks # <<>>
          /\ Len(heap[n].subfolders) = 2
          /\ LET c == heap[n].subfolders[1].ref
                 d == heap[n].subfolders[2].ref
             IN  /\ StrLess(lower(heap[d].name), lower(heap[c].name))
                 /\ heap[c].bookmarks # <<>>
                 /\ heap[d].bookmarks # <<>>

\* C9 as stated: the visible text of a row's entry is the escaped url when
\* the title is missing or only whitespace, and the escaped title otherwise.
C9_BlankTitleIsUrl ==
    pc = "done" =>
        BagOfSeq([k \in 1..Len(EntryLines) |->
                    <<EntryLines[k].bookmark.href, EntryLines[k].bookmark.text>>])
        = BagOfSeq([k \in 1..Len(df) |->
                    <<html_escape(df[k].url),
                      IF ~notna(df[k].title) \/ strip(df[k].title) = <<>>
                      THEN html_escape(df[k].url)
                      ELSE html_escape(df[k].title)>>])

\* the folder lists open before line k of the output
Depth(k) ==
    Cardinality({j \in 1..(k - 1) : content[j].tag = "DL"})
    - Cardinality({j \in 1..(k - 1) : content[j].tag = "/DL"})

IsSpaces(s, n) == Len(s) = n /\ \A k \in 1..Len(s) : s[k] = " "

\* C10: in the rendered body the folder lists are nested and balanced, every
\* entry line and header line is indented four spaces per open list, and a
\* list-close line is indented like the header of its folder.
C10_NestedAndIndented ==
    pc = "done" =>
        /\ \A k \in 1..Len(content) :
              /\ Depth(k + 1) >= 0
              /\ content[k].tag \in {"A", "H3"} =>
                    IsSpaces(content[k].indent, 4 * Depth(k))
              /\ content[k].tag = "/DL" =>
                    \E j \in 1..(k - 1) :
                        /\ content[j].tag = "H3"
                        /\ content[j].folder = content[k].folder
                        /\ content[j].indent = content[k].indent
                        /\ Depth(j) = Depth(k) - 1
        /\ Depth(Len(content) + 1) = 0

\* an entry two lists deep has been rendered, and an entry of a folder
\* named "root" that lies in another folder
C10_Witness ==
    /\ pc = "done"
    /\ \E k \in 1..Len(content) : content[k].tag = "A" /\ Depth(k) = 2
    /\ \E k \in 1..Len(content) :
          /\ content[k].tag = "A"
          /\ Depth(k) = 1
          /\ heap[content[k].folder].name = ROOT_NAME

=============================================================================
